---- MODULE Spec2Model ----
(***************************************************************************)
(* A model of autogoal's semantic type system (autogoal/kb/_data.py) and   *)
(* of the AutoClassifier orchestrator (autogoal/ml/__init__.py).           *)
(*                                                                         *)
(*   SpecConforms  the conformance relation `conforms` on semantic types   *)
(*   SpecMatch     Interface.is_compatible / Interface.generate_cfg        *)
(*   SpecFit       AutoClassifier.fit / score / predict and the fitness    *)
(*                 function it hands to the search                         *)
(***************************************************************************)
EXTENDS Integers, Sequences, FiniteSets, TLC

VARIABLES
    \* ---- SpecConforms: the arguments of conforms and its results
    type1, type2, type3, verdict,
    \* ---- SpecMatch: an interface class, a grammar namespace, generate_cfg's frame
    iface, namespace, cfg_pc, cfg_i, compatible, cfg_result,
    \* ---- SpecFit: an AutoClassifier, its constructor arguments
    errors, cross_validation_steps, validation_split,
    \* the labels y of the dataset handed to fit (row r of X is the number r)
    y,
    \* attributes fit sets on the AutoClassifier
    pipeline_builder_, best_pipeline_,
    \* the call in progress, how the last call ended, whether a fit ever returned
    pc, last_call, last_error, fitted,
    \* the frame of search.run
    iteration, candidate, best, best_fn, outcomes,
    \* the frame of fitness_fn
    scores, train_indices, test_indices, log,
    \* what predict or score last passed to a pipeline
    last_run,
    \* ---- SpecLift: the arguments of build_composite_list / build_composite_tuple,
    \* the class built, the calls its inner algorithm received, and one call of run
    lift_pc, depth, index, arg_input_type, arg_output_type, composite, calls, input, output,
    \* ---- SpecInfer: the argument of infer_type and how the call ended
    obj, inferred

conformsVars == <<type1, type2, type3, verdict>>
matchVars == <<iface, namespace, cfg_pc, cfg_i, compatible, cfg_result>>
argVars == <<errors, cross_validation_steps, validation_split, y>>
selfVars == <<pipeline_builder_, best_pipeline_>>
callVars == <<pc, last_call, last_error, fitted>>
searchVars == <<iteration, candidate, best, best_fn, outcomes>>
fitnessVars == <<scores, train_indices, test_indices, log>>
fitVars == <<argVars, selfVars, callVars, searchVars, fitnessVars, last_run>>

liftVars == <<lift_pc, depth, index, arg_input_type, arg_output_type, composite, calls, input, output>>
inferVars == <<obj, inferred>>
kbVars == <<liftVars, inferVars>>

vars == <<conformsVars, matchVars, fitVars, kbVars>>

(***************************************************************************)
(* Bounds of the model.                                                    *)
(***************************************************************************)
\* List layers wrapped around a plain semantic type
MaxDepth == 2
\* slots of a Tuple type
MaxArity == 2
\* entries of grammar.namespace
MaxNamespace == 2
\* rows of the dataset X
NumRows == 3
\* candidates one search.run evaluates (search_iterations)
SearchIterations == 2
\* largest cross_validation_steps
MaxSteps == 2

(***************************************************************************)
(* The class hierarchy of _data.py: each class with its direct bases.      *)
(* "object", "type" and "_empty" (inspect.Parameter.empty) are the Python  *)
(* classes an annotation can also be.                                      *)
(***************************************************************************)
Bases ==
    [c \in {"object", "type", "_empty", "DataType", "Text", "Word", "Stem",
            "Sentence", "Document", "Category", "Vector", "Matrix",
            "DenseMatrix", "SparseMatrix", "ContinuousVector",
            "DiscreteVector", "CategoricalVector", "MatrixContinuous",
            "MatrixContinuousDense", "MatrixContinuousSparse", "Entity",
            "Summary", "Sentiment", "Synset", "Tensor3", "List", "Tuple"} |->
        CASE c = "object" -> {}
          [] c \in {"type", "_empty", "DataType"} -> {"object"}
          [] c \in {"Word", "Sentence", "Document"} -> {"Text"}
          [] c \in {"DenseMatrix", "SparseMatrix", "MatrixContinuous"} -> {"Matrix"}
          [] c \in {"ContinuousVector", "DiscreteVector", "CategoricalVector"} -> {"Vector"}
          [] c = "MatrixContinuousDense" -> {"MatrixContinuous", "DenseMatrix"}
          [] c = "MatrixContinuousSparse" -> {"MatrixContinuous", "SparseMatrix"}
          [] c = "Summary" -> {"Document"}
          [] OTHER -> {"DataType"}]

\* Python's issubclass(c, d): d is c or an ancestor of c
RECURSIVE issubclass(_, _)
issubclass(c, d) == c = d \/ \E b \in Bases[c] : issubclass(b, d)

(***************************************************************************)
(* Values an annotation can hold.  k = "class" is a Python class (cls its  *)
(* name); every other k is an instance of the DataType subclass cls, with  *)
(* its tags (a set of <<key, value>> pairs) and, for List and Tuple, the   *)
(* inner types.                                                            *)
(***************************************************************************)
PyClass(c) == [k |-> "class", cls |-> c, tags |-> {}, inner |-> <<>>]
DataType(c, tags) == [k |-> "plain", cls |-> c, tags |-> tags, inner |-> <<>>]
List(inner) == [k |-> "List", cls |-> "List", tags |-> {}, inner |-> <<inner>>]
Tuple(inner) == [k |-> "Tuple", cls |-> "Tuple", tags |-> {}, inner |-> inner]

NoType == [k |-> "none", cls |-> "object", tags |-> {}, inner |-> <<>>]
empty == PyClass("_empty")

isclass(t) == t.k = "class"
\* t.__class__: the metaclass `type` for a class, the class for an instance
ClassOf(t) == IF isclass(t) THEN "type" ELSE t.cls
\* isinstance(t, c)
isinstance(t, c) == issubclass(ClassOf(t), c)
\* hasattr(t, "__conforms__"): every DataType instance has it, no plain class
has__conforms__(t) == ~isclass(t) /\ issubclass(t.cls, "DataType")
\* hasattr(t, "__rconforms__"): nothing in the module defines it
has__rconforms__(t) == FALSE

RECURSIVE conforms(_, _)
RECURSIVE List__conforms__(_, _)
RECURSIVE Tuple__conforms__(_, _)

\* a bug: only the class itself and its direct bases are looked at
DataType__conforms__DirectBase(self, other) ==
    self.cls = ClassOf(other) \/ ClassOf(other) \in Bases[self.cls]

\* a bug: a proper subclass is asked for
DataType__conforms__Strict(self, other) ==
    self.cls # ClassOf(other) /\ issubclass(self.cls, ClassOf(other))

\* DataType.__conforms__
DataType__conforms__(self, other) == issubclass(self.cls, ClassOf(other))

\* a bug: List conformance that compares the inner types backwards
List__conforms__Swapped(self, other) ==
    isinstance(other, "List") /\ conforms(other.inner[1], self.inner[1])

\* List.__conforms__
List__conforms__(self, other) ==
    isinstance(other, "List") /\ conforms(self.inner[1], other.inner[1])

\* Tuple.__conforms__
Tuple__conforms__(self, other) ==
    IF ~isinstance(other, "Tuple") THEN FALSE
    ELSE IF Len(self.inner) # Len(other.inner) THEN FALSE
    ELSE \A i \in 1..Len(self.inner) : conforms(self.inner[i], other.inner[i])

\* type1.__conforms__(type2), dispatched on type1's class
dunder_conforms(t1, t2) ==
    CASE t1.k = "List" -> List__conforms__(t1, t2)
      [] t1.k = "Tuple" -> Tuple__conforms__(t1, t2)
      [] OTHER -> DataType__conforms__(t1, t2)

\* conforms(type1, type2)
conforms(t1, t2) ==
    IF isclass(t1) /\ isclass(t2) THEN issubclass(t1.cls, t2.cls)
    ELSE IF has__conforms__(t1) /\ dunder_conforms(t1, t2) THEN TRUE
    ELSE IF has__rconforms__(t2) THEN TRUE
    ELSE FALSE

(***************************************************************************)
(* The types drawn as arguments of conforms.                               *)
(***************************************************************************)
Variants == {"DataType", "Text", "Sentence", "Word", "MatrixContinuous",
             "MatrixContinuousDense"}
English == {<<"language", "english">>}

PlainTypes ==
    {DataType(c, {}) : c \in Variants} \cup {DataType("Sentence", English)}

RECURSIVE ListTypes(_, _)
ListTypes(S, d) ==
    IF d = 0 THEN S ELSE S \cup {List(t) : t \in ListTypes(S, d - 1)}

TupleElems == {DataType("Word", {}), DataType("Text", {}), List(DataType("Word", {}))}

SeqsUpTo(S, n) == UNION {[1..m -> S] : m \in 0..n}

TupleTypes == {Tuple(s) : s \in SeqsUpTo(TupleElems, MaxArity)}

PyClasses == {PyClass("_empty"), PyClass("object")}

\* plain types, Lists of them to MaxDepth layers, Tuples, Lists of Tuples
SemanticTypes ==
    ListTypes(PlainTypes, MaxDepth) \cup TupleTypes \cup {List(t) : t \in TupleTypes}

TypeValues == SemanticTypes \cup PyClasses

(***************************************************************************)
(* Classes as inspect sees them: whether the value is a class at all,      *)
(* whether it derives from Interface, and its methods and functions in     *)
(* order, each with the signature inspect.signature gives.                 *)
(***************************************************************************)
Parameter(name, annotation) == [name |-> name, annotation |-> annotation]
Signature(parameters, return_annotation) ==
    [parameters |-> parameters, return_annotation |-> return_annotation]
Member(name, signature) == [name |-> name, signature |-> signature]
Class(interface, members) ==
    [isclass |-> TRUE, interface |-> interface, members |-> members]

\* a namespace entry that is not a class (a function, a module, an object)
NotAClass == [isclass |-> FALSE, interface |-> FALSE, members |-> <<>>]

\* names str.startswith("_") is true of
PrivateNames == {"__init__", "__repr__", "__getattr__"}

\* the two classmethods every Interface subclass inherits
InterfaceMembers ==
    << Member("generate_cfg",
              Signature(<<Parameter("grammar", empty), Parameter("head", empty)>>, empty)),
       Member("is_compatible",
              Signature(<<Parameter("other_cls", empty)>>, empty)) >>

\* algorithm(input_type, output_type)
algorithm(input_type, output_type) ==
    Class(TRUE,
          <<Member("run",
                   Signature(<<Parameter("self", empty),
                               Parameter("input", input_type)>>, output_type))>>
          \o InterfaceMembers)

\* a component class: __init__(self) and run(self, <name>: input) -> output
Component(pname, input_type, output_type) ==
    Class(FALSE,
          << Member("__init__", Signature(<<Parameter("self", empty)>>, empty)),
             Member("run",
                    Signature(<<Parameter("self", empty),
                                Parameter(pname, input_type)>>, output_type)) >>)

\* a class with no run method
NoRunClass ==
    Class(FALSE,
          << Member("__init__", Signature(<<Parameter("self", empty)>>, empty)),
             Member("fit",
                    Signature(<<Parameter("self", empty), Parameter("X", empty),
                                Parameter("y", empty)>>, empty)) >>)

\* _get_annotations(clss, ignore): the public members, minus the ignored names
get_annotations(clss, ignore) ==
    LET Public(m) == m.name \notin PrivateNames /\ m.name \notin ignore
    IN SelectSeq(clss.members, Public)

\* name in mapping, mapping[name] for the name -> value sequences above
HasKey(items, name) == \E i \in 1..Len(items) : items[i].name = name
Get(items, name) == items[CHOOSE i \in 1..Len(items) : items[i].name = name]

\* a bug: the parameter test runs the wrong way (covariant parameters)
compatible_annotationsCovariant(methods_if, methods_im) ==
    \A i \in 1..Len(methods_if) :
        LET name == methods_if[i].name
            mif == methods_if[i].signature
        IN /\ HasKey(methods_im, name)
           /\ LET mim == Get(methods_im, name).signature
              IN /\ \A j \in 1..Len(mif.parameters) :
                        LET param_if == mif.parameters[j]
                        IN /\ HasKey(mim.parameters, param_if.name)
                           /\ \/ param_if.annotation = empty
                              \/ conforms(Get(mim.parameters, param_if.name).annotation,
                                          param_if.annotation)
                 /\ \/ mif.return_annotation = empty
                    \/ conforms(mim.return_annotation, mif.return_annotation)

\* _compatible_annotations(methods_if, methods_im): the loops return False at
\* the first failing test, so the result is the conjunction of the tests
compatible_annotations(methods_if, methods_im) ==
    \A i \in 1..Len(methods_if) :
        LET name == methods_if[i].name
            mif == methods_if[i].signature
        IN /\ HasKey(methods_im, name)
           /\ LET mim == Get(methods_im, name).signature
              IN /\ \A j \in 1..Len(mif.parameters) :
                        LET param_if == mif.parameters[j]
                        IN /\ HasKey(mim.parameters, param_if.name)
                           /\ \/ param_if.annotation = empty
                              \/ conforms(param_if.annotation,
                                          Get(mim.parameters, param_if.name).annotation)
                 /\ \/ mif.return_annotation = empty
                    \/ conforms(mim.return_annotation, mif.return_annotation)

\* Interface.is_compatible(cls, other_cls)
is_compatible(cls, other_cls) ==
    LET own_methods == get_annotations(cls, {"generate_cfg", "is_compatible"})
    IN IF ~other_cls.isclass THEN FALSE
       ELSE IF other_cls.interface THEN FALSE
       ELSE compatible_annotations(own_methods, get_annotations(other_cls, {}))

(***************************************************************************)
(* The AutoClassifier of autogoal/ml/__init__.py.  A pipeline is the       *)
(* object the search samples: id is the iteration that sampled it, mode    *)
(* the last mode it was sent ("none" before any send).                     *)
(***************************************************************************)
\* the attribute has not been assigned (reading it raises AttributeError)
Unset == [id |-> 0, mode |-> "none"]
Pipeline(id) == [id |-> id, mode |-> "none"]

\* pipeline.send(mode)
send(pipeline, mode) == [pipeline EXCEPT !.mode = mode]

Rows == 1..NumRows
\* the label vector y drawn: classes 1, 2, 1, 2, ... (never the 0 that
\* np.zeros_like fills with, so a blanked slot differs from the labels)
LabelVectors == {[r \in Rows |-> 1 + ((r + 1) % 2)]}
\* validation_split, in percent
Splits == {20, 50}
\* the exact-match rate of one round, in percent
Rates == {0, 100}
\* the errors argument: warn and continue, or abort the search
ErrorPolicies == {"warn", "raise"}

\* a bug: the labels are passed on instead of blanked
zeros_likeUnblanked(a) == a

\* np.zeros_like(a)
zeros_like(a) == [i \in 1..Len(a) |-> 0]

\* [None] * len(X)
NoneLabels(n) == [i \in 1..n |-> "None"]

\* a[indices]
Take(a, indices) == [i \in 1..Len(indices) |-> a[indices[i]]]

\* the orders np.random.shuffle can leave np.arange(0, X.shape[0]) in
Shuffles == {p \in [Rows -> Rows] : \A i, j \in Rows : p[i] = p[j] => i = j}

\* int(self.validation_split * len(indices))
split_index(indices) == (validation_split * Len(indices)) \div 100

\* statistics.median(scores)
median(s) ==
    LET sorted == SortSeq(s, LAMBDA a, b : a < b)
        n == Len(s)
    IN IF n % 2 = 1 THEN sorted[(n + 1) \div 2]
       ELSE (sorted[n \div 2] + sorted[n \div 2 + 1]) \div 2

\* the events of a round: a mode sent, or a run on (rows, labels)
Sent(mode) == [op |-> "send", mode |-> mode, rows |-> <<>>, labels |-> <<>>]
Ran(rows, labels) == [op |-> "run", mode |-> "", rows |-> rows, labels |-> labels]

NoRun == [by |-> "none", mode |-> "none", labels |-> <<>>]

\* a bug: the search is always told to abort
SearchErrorsAlwaysRaise == "raise"

\* errors=self.errors
SearchErrors == errors

(***************************************************************************)
(* The annotations and namespace entries drawn for the matcher.            *)
(***************************************************************************)
Annotations ==
    {empty, DataType("Word", {}), DataType("Text", {}), List(DataType("Word", {}))}

Candidates ==
    {Component("input", i, o) : i \in Annotations, o \in Annotations}
    \cup {Component("x", DataType("Word", {}), DataType("Word", {})),
          NoRunClass, NotAClass,
          algorithm(DataType("Word", {}), DataType("Word", {}))}

(***************************************************************************)
(* The lifting combinators and infer_type before any call.                 *)
(***************************************************************************)
\* no class built yet
NoComposite == [kind |-> "none", depth |-> 0, index |-> 0,
                run_input |-> NoType, run_output |-> NoType,
                inner_input |-> NoType, inner_output |-> NoType]

LiftIdle ==
    /\ lift_pc = "idle"
    /\ depth = 0
    /\ index = 0
    /\ arg_input_type = NoType
    /\ arg_output_type = NoType
    /\ composite = NoComposite
    /\ calls = <<>>
    /\ input = <<>>
    /\ output = <<>>

\* what infer_type was given: nothing yet
NoObject == [k |-> "none", chars |-> <<>>, items |-> <<>>, ndim |-> 0]
NoInference == [done |-> FALSE, raised |-> FALSE, type |-> NoType]

InferIdle ==
    /\ obj = NoObject
    /\ inferred = NoInference

(***************************************************************************)
(* SpecConforms: conforms applied to the pairs of three drawn values.      *)
(***************************************************************************)
NoVerdict == [done |-> FALSE, ab |-> FALSE, bc |-> FALSE, ac |-> FALSE,
              aa |-> FALSE, lab |-> FALSE]

MatchIdle ==
    /\ iface = NotAClass
    /\ namespace = <<>>
    /\ cfg_pc = "idle"
    /\ cfg_i = 0
    /\ compatible = <<>>
    /\ cfg_result = "none"

\* no AutoClassifier call in progress
FrameIdle ==
    /\ pc = "idle"
    /\ last_call = "none"
    /\ last_error = "none"
    /\ fitted = FALSE
    /\ pipeline_builder_ = FALSE
    /\ best_pipeline_ = Unset
    /\ iteration = 0
    /\ candidate = Unset
    /\ best = Unset
    /\ best_fn = 0
    /\ outcomes = <<>>
    /\ scores = <<>>
    /\ train_indices = <<>>
    /\ test_indices = <<>>
    /\ log = <<>>
    /\ last_run = NoRun

FitIdle ==
    /\ errors = "warn"
    /\ cross_validation_steps = 1
    /\ validation_split = 20
    /\ y = [r \in Rows |-> 0]
    /\ FrameIdle

InitConforms ==
    /\ type1 \in TypeValues
    /\ type2 \in TypeValues
    /\ type3 = NoType
    /\ verdict = NoVerdict
    /\ MatchIdle
    /\ FitIdle
    /\ LiftIdle
    /\ InferIdle

\* the calls conforms(a, b), conforms(b, c), conforms(a, c), conforms(a, a) and
\* conforms(List(a), List(b)) for a third value c
CallConforms ==
    /\ ~verdict.done
    /\ \E c \in TypeValues :
        /\ type3' = c
        /\ verdict' = [done |-> TRUE,
                       ab |-> conforms(type1, type2),
                       bc |-> conforms(type2, c),
                       ac |-> conforms(type1, c),
                       aa |-> conforms(type1, type1),
                       lab |-> conforms(List(type1), List(type2))]
    /\ UNCHANGED <<type1, type2, matchVars, fitVars, kbVars>>

NextConforms == CallConforms

SpecConforms == InitConforms /\ [][NextConforms]_vars

(***************************************************************************)
(* SpecMatch: generate_cfg of an interface class over a grammar namespace. *)
(***************************************************************************)
ConformsIdle ==
    /\ type1 = NoType
    /\ type2 = NoType
    /\ type3 = NoType
    /\ verdict = NoVerdict

InitMatch ==
    /\ ConformsIdle
    /\ FitIdle
    /\ LiftIdle
    /\ InferIdle
    /\ iface \in {algorithm(i, o) : i \in Annotations, o \in Annotations}
    /\ namespace \in SeqsUpTo(Candidates, MaxNamespace)
    /\ cfg_pc = "idle"
    /\ cfg_i = 0
    /\ compatible = <<>>
    /\ cfg_result = "none"

\* generate_cfg is entered: compatible = []
GenerateCfgCall ==
    /\ cfg_pc = "idle"
    /\ cfg_pc' = "scan"
    /\ cfg_i' = 1
    /\ compatible' = <<>>
    /\ UNCHANGED <<iface, namespace, cfg_result, conformsVars, fitVars, kbVars>>

\* a bug: the scan stops at the first compatible entry
GenerateCfgScanFirstOnly ==
    /\ cfg_pc = "scan"
    /\ cfg_i <= Len(namespace)
    /\ IF is_compatible(iface, namespace[cfg_i])
       THEN /\ compatible' = Append(compatible, namespace[cfg_i])
            /\ cfg_i' = Len(namespace) + 1
       ELSE /\ compatible' = compatible
            /\ cfg_i' = cfg_i + 1
    /\ UNCHANGED <<iface, namespace, cfg_pc, cfg_result, conformsVars, fitVars, kbVars>>

\* one round of the loop over grammar.namespace.items()
GenerateCfgScan ==
    /\ cfg_pc = "scan"
    /\ cfg_i <= Len(namespace)
    /\ compatible' = IF is_compatible(iface, namespace[cfg_i])
                     THEN Append(compatible, namespace[cfg_i])
                     ELSE compatible
    /\ cfg_i' = cfg_i + 1
    /\ UNCHANGED <<iface, namespace, cfg_pc, cfg_result, conformsVars, fitVars, kbVars>>

\* after the loop: raise ValueError, or hand the compatible classes to Union
GenerateCfgFinish ==
    /\ cfg_pc = "scan"
    /\ cfg_i > Len(namespace)
    /\ cfg_pc' = "done"
    /\ cfg_result' = IF compatible = <<>> THEN "ValueError" ELSE "Union"
    /\ UNCHANGED <<iface, namespace, cfg_i, compatible, conformsVars, fitVars, kbVars>>

NextMatch == GenerateCfgCall \/ GenerateCfgScan \/ GenerateCfgFinish

SpecMatch == InitMatch /\ [][NextMatch]_vars

(***************************************************************************)
(* SpecFit: fit, score and predict calls on one AutoClassifier.  The       *)
(* search (autogoal.search) and the pipelines it samples are collaborators *)
(* outside these sources: the search evaluates search_iterations           *)
(* candidates with the fitness function and follows its errors argument    *)
(* when a candidate raises; a pipeline's run either returns or raises.     *)
(***************************************************************************)
InitFit ==
    /\ ConformsIdle
    /\ MatchIdle
    /\ LiftIdle
    /\ InferIdle
    /\ errors \in ErrorPolicies
    /\ cross_validation_steps \in 1..MaxSteps
    /\ validation_split \in Splits
    /\ y \in LabelVectors
    /\ FrameIdle

\* the frame of fitness_fn is gone once it returns or raises
FitnessFrameDropped ==
    /\ scores' = <<>>
    /\ train_indices' = <<>>
    /\ test_indices' = <<>>
    /\ log' = <<>>

\* the frames of search.run and fitness_fn are gone once fit is left
FramesDropped ==
    /\ iteration' = 0
    /\ candidate' = Unset
    /\ best' = Unset
    /\ best_fn' = 0
    /\ FitnessFrameDropped

\* fit is left by an exception
FitRaises(error) ==
    /\ pc' = "idle"
    /\ last_call' = "fit_raised"
    /\ last_error' = error
    /\ FramesDropped
    /\ UNCHANGED fitted

\* fit(X, y) is called
FitCall ==
    /\ pc = "idle"
    /\ pc' = "build"
    /\ last_call' = "fit"
    /\ last_error' = "none"
    /\ last_run' = NoRun
    /\ outcomes' = <<>>
    /\ UNCHANGED <<fitted, iteration, candidate, best, best_fn>>
    /\ UNCHANGED <<argVars, selfVars, fitnessVars, conformsVars, matchVars, kbVars>>

\* self.pipeline_builder_ = build_pipelines(...)
FitBuildSpace ==
    /\ pc = "build"
    /\ pipeline_builder_' = TRUE
    /\ pc' = "search"
    /\ UNCHANGED <<last_call, last_error, fitted, best_pipeline_>>
    /\ UNCHANGED <<argVars, searchVars, fitnessVars, last_run, conformsVars, matchVars, kbVars>>

\* infer_type or build_pipelines raises: nothing is assigned
FitBuildSpaceRaises ==
    /\ pc = "build"
    /\ FitRaises("ConfigurationError")
    /\ UNCHANGED <<argVars, selfVars, outcomes, last_run, conformsVars, matchVars, kbVars>>

\* the search samples its next candidate and calls fitness_fn(pipeline)
SearchSample ==
    /\ pc = "search"
    /\ iteration < SearchIterations
    /\ iteration' = iteration + 1
    /\ candidate' = Pipeline(iteration + 1)
    /\ pc' = "fitness"
    /\ UNCHANGED <<last_call, last_error, fitted, best, best_fn, outcomes>>
    /\ UNCHANGED fitnessVars
    /\ UNCHANGED <<argVars, selfVars, last_run, conformsVars, matchVars, kbVars>>

\* a round of fitness_fn begins: shuffle, split, pipeline.send("train")
FitnessRoundStart ==
    /\ pc = "fitness"
    /\ Len(scores) < cross_validation_steps
    /\ \E indices \in Shuffles :
        /\ train_indices' = SubSeq(indices, 1, split_index(indices))
        /\ test_indices' = SubSeq(indices, split_index(indices) + 1, Len(indices))
    /\ candidate' = send(candidate, "train")
    /\ log' = <<Sent("train")>>
    /\ pc' = "run_train"
    /\ UNCHANGED <<last_call, last_error, fitted>>
    /\ UNCHANGED <<iteration, best, best_fn, outcomes, scores>>
    /\ UNCHANGED <<argVars, selfVars, last_run, conformsVars, matchVars, kbVars>>

\* pipeline.run((X_train, y_train)) returns; pipeline.send("eval")
FitnessRunTrain ==
    /\ pc = "run_train"
    /\ candidate' = send(candidate, "eval")
    /\ log' = log \o <<Ran(train_indices, Take(y, train_indices)), Sent("eval")>>
    /\ pc' = "run_eval"
    /\ UNCHANGED <<last_call, last_error, fitted>>
    /\ UNCHANGED <<iteration, best, best_fn, outcomes, scores, train_indices, test_indices>>
    /\ UNCHANGED <<argVars, selfVars, last_run, conformsVars, matchVars, kbVars>>

\* pipeline.run((X_train, y_train)) raises: fitness_fn raises
FitnessRunTrainRaises ==
    /\ pc = "run_train"
    /\ log' = Append(log, Ran(train_indices, Take(y, train_indices)))
    /\ pc' = "candidate_raised"
    /\ UNCHANGED <<last_call, last_error, fitted>>
    /\ UNCHANGED <<searchVars, scores, train_indices, test_indices>>
    /\ UNCHANGED <<argVars, selfVars, last_run, conformsVars, matchVars, kbVars>>

\* y_pred = pipeline.run((X_test, np.zeros_like(y_test))); the round's score
FitnessRunEval ==
    /\ pc = "run_eval"
    /\ log' = Append(log, Ran(test_indices, zeros_like(Take(y, test_indices))))
    /\ \E rate \in Rates : scores' = Append(scores, rate)
    /\ pc' = "fitness"
    /\ UNCHANGED <<last_call, last_error, fitted>>
    /\ UNCHANGED <<searchVars, train_indices, test_indices>>
    /\ UNCHANGED <<argVars, selfVars, last_run, conformsVars, matchVars, kbVars>>

\* pipeline.run((X_test, ...)) raises: fitness_fn raises
FitnessRunEvalRaises ==
    /\ pc = "run_eval"
    /\ log' = Append(log, Ran(test_indices, zeros_like(Take(y, test_indices))))
    /\ pc' = "candidate_raised"
    /\ UNCHANGED <<last_call, last_error, fitted>>
    /\ UNCHANGED <<searchVars, scores, train_indices, test_indices>>
    /\ UNCHANGED <<argVars, selfVars, last_run, conformsVars, matchVars, kbVars>>

\* fitness_fn returns the median of the scores; the search keeps the candidate
\* if it is the best so far
SearchRecord ==
    /\ pc = "fitness"
    /\ Len(scores) = cross_validation_steps
    /\ outcomes' = Append(outcomes, "ok")
    /\ IF best = Unset \/ median(scores) > best_fn
       THEN best' = candidate /\ best_fn' = median(scores)
       ELSE UNCHANGED <<best, best_fn>>
    /\ pc' = "search"
    /\ FitnessFrameDropped
    /\ UNCHANGED <<last_call, last_error, fitted, iteration, candidate>>
    /\ UNCHANGED <<argVars, selfVars, last_run, conformsVars, matchVars, kbVars>>

\* fitness_fn raised and the search was told to warn: the candidate is
\* recorded as failed, the search goes on
SearchContinues ==
    /\ pc = "candidate_raised"
    /\ SearchErrors = "warn"
    /\ outcomes' = Append(outcomes, "raised")
    /\ pc' = "search"
    /\ FitnessFrameDropped
    /\ UNCHANGED <<last_call, last_error, fitted, iteration, candidate, best, best_fn>>
    /\ UNCHANGED <<argVars, selfVars, last_run, conformsVars, matchVars, kbVars>>

\* fitness_fn raised and the search was told to raise: search.run raises
SearchAborts ==
    /\ pc = "candidate_raised"
    /\ SearchErrors = "raise"
    /\ outcomes' = Append(outcomes, "raised")
    /\ FitRaises("CandidateEvaluationError")
    /\ UNCHANGED <<argVars, selfVars, last_run, conformsVars, matchVars, kbVars>>

\* the budget is used up and no candidate was evaluated: search.run raises
SearchExhausted ==
    /\ pc = "search"
    /\ iteration = SearchIterations
    /\ best = Unset
    /\ FitRaises("SearchExhausted")
    /\ UNCHANGED <<argVars, selfVars, outcomes, last_run, conformsVars, matchVars, kbVars>>

\* self.best_pipeline_, self.best_score_ = search.run(...); best_score_ is
\* read by nothing here and is left out of the state
FitAssignBest ==
    /\ pc = "search"
    /\ iteration = SearchIterations
    /\ best # Unset
    /\ best_pipeline_' = best
    /\ pc' = "retrain"
    /\ UNCHANGED <<last_call, last_error, fitted, pipeline_builder_>>
    /\ UNCHANGED <<argVars, searchVars, fitnessVars, last_run, conformsVars, matchVars, kbVars>>

\* send("train"); run((X, y)) returns; send("eval"); fit returns
FitRetrain ==
    /\ pc = "retrain"
    /\ best_pipeline_' = send(send(best_pipeline_, "train"), "eval")
    /\ pc' = "idle"
    /\ last_call' = "fit_ok"
    /\ last_error' = "none"
    /\ fitted' = TRUE
    /\ FramesDropped
    /\ UNCHANGED <<pipeline_builder_, outcomes>>
    /\ UNCHANGED <<argVars, last_run, conformsVars, matchVars, kbVars>>

\* send("train"); run((X, y)) raises: fit raises
FitRetrainRaises ==
    /\ pc = "retrain"
    /\ best_pipeline_' = send(best_pipeline_, "train")
    /\ FitRaises("PipelineError")
    /\ UNCHANGED <<pipeline_builder_, outcomes>>
    /\ UNCHANGED <<argVars, last_run, conformsVars, matchVars, kbVars>>

\* predict(X) before best_pipeline_ exists: AttributeError
PredictUnset ==
    /\ pc = "idle"
    /\ best_pipeline_ = Unset
    /\ last_call' = "predict_raised"
    /\ last_error' = "AttributeError"
    /\ UNCHANGED <<pc, fitted>>
    /\ UNCHANGED <<argVars, selfVars, searchVars, fitnessVars, last_run, conformsVars, matchVars, kbVars>>

\* predict(X): self.best_pipeline_.run((X, [None] * len(X))), which returns or raises
Predict ==
    /\ pc = "idle"
    /\ best_pipeline_ # Unset
    /\ last_run' = [by |-> "predict", mode |-> best_pipeline_.mode,
                    labels |-> NoneLabels(NumRows)]
    /\ \E result \in {"predict_ok", "predict_raised"} :
        /\ last_call' = result
        /\ last_error' = IF result = "predict_ok" THEN "none" ELSE "PipelineError"
    /\ UNCHANGED <<pc, fitted>>
    /\ UNCHANGED <<argVars, selfVars, searchVars, fitnessVars, conformsVars, matchVars, kbVars>>

\* score(X, y) before best_pipeline_ exists: AttributeError
ScoreUnset ==
    /\ pc = "idle"
    /\ best_pipeline_ = Unset
    /\ last_call' = "score_raised"
    /\ last_error' = "AttributeError"
    /\ UNCHANGED <<pc, fitted>>
    /\ UNCHANGED <<argVars, selfVars, searchVars, fitnessVars, last_run, conformsVars, matchVars, kbVars>>

\* score(X, y): self.best_pipeline_.run((X, np.zeros_like(y)))
Score ==
    /\ pc = "idle"
    /\ best_pipeline_ # Unset
    /\ last_run' = [by |-> "score", mode |-> best_pipeline_.mode,
                    labels |-> zeros_like(y)]
    /\ \E result \in {"score_ok", "score_raised"} :
        /\ last_call' = result
        /\ last_error' = IF result = "score_ok" THEN "none" ELSE "PipelineError"
    /\ UNCHANGED <<pc, fitted>>
    /\ UNCHANGED <<argVars, selfVars, searchVars, fitnessVars, conformsVars, matchVars, kbVars>>

NextFit ==
    \/ FitCall \/ FitBuildSpace \/ FitBuildSpaceRaises
    \/ SearchSample \/ SearchRecord \/ SearchContinues \/ SearchAborts
    \/ SearchExhausted
    \/ FitnessRoundStart \/ FitnessRunTrain \/ FitnessRunTrainRaises
    \/ FitnessRunEval \/ FitnessRunEvalRaises
    \/ FitAssignBest \/ FitRetrain \/ FitRetrainRaises
    \/ PredictUnset \/ Predict \/ ScoreUnset \/ Score

SpecFit == InitFit /\ [][NextFit]_vars

(***************************************************************************)
(* SpecLift: build_composite_list and build_composite_tuple, and one call  *)
(* of the run method of the class built.                                   *)
(***************************************************************************)
\* a value handed to run: what it is made from, and the ordinal of the
\* inner.run call that made it (0: it is a caller's value)
Value(leaf, ran) == [leaf |-> leaf, ran |-> ran]
Leaves == {Value("a", 0), Value("b", 0)}

\* lengths of the sequences at each level of a nested input
Widths == {0, 1, 2}

\* the d-deep nested sequences
RECURSIVE Nested(_)
Nested(d) ==
    IF d = 0 THEN Leaves ELSE UNION {[1..w -> Nested(d - 1)] : w \in Widths}

NestedInputs == [d \in 0..MaxDepth |-> Nested(d)]

\* the tuples handed to a CompositeAlgorithm
TupleInputs == SeqsUpTo(Leaves, MaxArity)

\* the element types and the indexes the builders are called with
LiftTypes == {DataType("Word", {}), DataType("Sentence", {})}
Indexes == (0 - (MaxArity + 1))..(MaxArity + 1)

\* self.inner.run(x), the n-th call the inner algorithm receives
inner_run(x, n) == Value(x.leaf, n)

\* wrap(t, d) of build_composite_list
RECURSIVE wrap(_, _)
wrap(t, d) == IF d = 0 THEN t ELSE List(wrap(t, d - 1))

\* seq[i] on a Python sequence of length n: i counts from the end when negative
getitem_ok(n, i) == (0 - n) <= i /\ i < n
getitem_pos(n, i) == IF i < 0 THEN n + i + 1 ELSE i + 1

RECURSIVE wrap_run(_, _, _)
RECURSIVE comprehension(_, _, _, _, _)

\* a bug: the elements are visited from the last to the first
comprehensionReversed(xs, d, i, acc, log_) ==
    IF i > Len(xs) THEN [out |-> acc, calls |-> log_]
    ELSE LET r == wrap_run(xs[Len(xs) + 1 - i], d - 1, log_)
         IN comprehension(xs, d, i + 1, <<r.out>> \o acc, r.calls)

\* [wrap_run(x, d-1) for x in xs], from element i on: acc holds the results
\* so far, log_ the calls inner.run has received
comprehension(xs, d, i, acc, log_) ==
    IF i > Len(xs) THEN [out |-> acc, calls |-> log_]
    ELSE LET r == wrap_run(xs[i], d - 1, log_)
         IN comprehension(xs, d, i + 1, Append(acc, r.out), r.calls)

\* wrap_run(xs, d) of ListAlgorithm.run
wrap_run(xs, d, log_) ==
    IF d = 0
    THEN LET ret == inner_run(xs, Len(log_) + 1)
         IN [out |-> ret, calls |-> Append(log_, [arg |-> xs, ret |-> ret])]
    ELSE comprehension(xs, d, 1, <<>>, log_)

\* a bug: inner.run is mapped over every slot
tuple_run_methodEverySlot(i, elements, n) ==
    [j \in 1..Len(elements) |-> inner_run(elements[j], n)]

\* CompositeAlgorithm.run on elements = list(input), inner.run's call the n-th
tuple_run_method(i, elements, n) ==
    [elements EXCEPT ![getitem_pos(Len(elements), i)] =
        inner_run(elements[getitem_pos(Len(elements), i)], n)]

BuildCompositeList ==
    /\ lift_pc = "idle"
    /\ \E d \in 0..MaxDepth, it \in LiftTypes, ot \in LiftTypes :
        /\ depth' = d
        /\ arg_input_type' = it
        /\ arg_output_type' = ot
        /\ composite' = [kind |-> "ListAlgorithm", depth |-> d, index |-> 0,
                         run_input |-> wrap(it, d), run_output |-> wrap(ot, d),
                         inner_input |-> it, inner_output |-> ot]
    /\ lift_pc' = "built"
    /\ UNCHANGED <<index, calls, input, output>>
    /\ UNCHANGED <<conformsVars, matchVars, fitVars, inferVars>>

\* internal_input and internal_output exist: the class is built
BuildCompositeTuple ==
    /\ lift_pc = "idle"
    /\ \E i \in Indexes, it \in TupleTypes, ot \in TupleTypes :
        /\ getitem_ok(Len(it.inner), i)
        /\ getitem_ok(Len(ot.inner), i)
        /\ index' = i
        /\ arg_input_type' = it
        /\ arg_output_type' = ot
        /\ composite' = [kind |-> "CompositeAlgorithm", depth |-> 0, index |-> i,
                         run_input |-> it, run_output |-> ot,
                         inner_input |-> it.inner[getitem_pos(Len(it.inner), i)],
                         inner_output |-> ot.inner[getitem_pos(Len(ot.inner), i)]]
    /\ lift_pc' = "built"
    /\ UNCHANGED <<depth, calls, input, output>>
    /\ UNCHANGED <<conformsVars, matchVars, fitVars, inferVars>>

\* input_type.inner[index] or output_type.inner[index] raises IndexError
BuildCompositeTupleRaises ==
    /\ lift_pc = "idle"
    /\ \E i \in Indexes, it \in TupleTypes, ot \in TupleTypes :
        /\ ~(getitem_ok(Len(it.inner), i) /\ getitem_ok(Len(ot.inner), i))
        /\ index' = i
        /\ arg_input_type' = it
        /\ arg_output_type' = ot
    /\ lift_pc' = "build raised"
    /\ UNCHANGED <<depth, composite, calls, input, output>>
    /\ UNCHANGED <<conformsVars, matchVars, fitVars, inferVars>>

\* a caller hands its value to run
RunCall ==
    /\ lift_pc = "built"
    /\ input' \in (IF composite.kind = "ListAlgorithm"
                   THEN NestedInputs[composite.depth] ELSE TupleInputs)
    /\ lift_pc' = "called"
    /\ UNCHANGED <<depth, index, arg_input_type, arg_output_type, composite, calls, output>>
    /\ UNCHANGED <<conformsVars, matchVars, fitVars, inferVars>>

ListAlgorithmRun ==
    /\ lift_pc = "called"
    /\ composite.kind = "ListAlgorithm"
    /\ LET r == wrap_run(input, composite.depth, calls)
       IN /\ output' = r.out
          /\ calls' = r.calls
    /\ lift_pc' = "returned"
    /\ UNCHANGED <<depth, index, arg_input_type, arg_output_type, composite, input>>
    /\ UNCHANGED <<conformsVars, matchVars, fitVars, inferVars>>

CompositeAlgorithmRun ==
    /\ lift_pc = "called"
    /\ composite.kind = "CompositeAlgorithm"
    /\ getitem_ok(Len(input), composite.index)
    /\ LET elements == input
           at == getitem_pos(Len(elements), composite.index)
           out == tuple_run_method(composite.index, elements, Len(calls) + 1)
       IN /\ output' = out
          /\ calls' = Append(calls, [arg |-> elements[at], ret |-> out[at]])
    /\ lift_pc' = "returned"
    /\ UNCHANGED <<depth, index, arg_input_type, arg_output_type, composite, input>>
    /\ UNCHANGED <<conformsVars, matchVars, fitVars, inferVars>>

\* elements[index] raises IndexError: the tuple handed in is too short
CompositeAlgorithmRunRaises ==
    /\ lift_pc = "called"
    /\ composite.kind = "CompositeAlgorithm"
    /\ ~getitem_ok(Len(input), composite.index)
    /\ lift_pc' = "run raised"
    /\ UNCHANGED <<depth, index, arg_input_type, arg_output_type, composite, calls, input, output>>
    /\ UNCHANGED <<conformsVars, matchVars, fitVars, inferVars>>

InitLift ==
    /\ ConformsIdle
    /\ MatchIdle
    /\ FitIdle
    /\ LiftIdle
    /\ InferIdle

NextLift ==
    \/ BuildCompositeList
    \/ BuildCompositeTuple
    \/ BuildCompositeTupleRaises
    \/ RunCall
    \/ ListAlgorithmRun
    \/ CompositeAlgorithmRun
    \/ CompositeAlgorithmRunRaises

SpecLift == InitLift /\ [][NextLift]_vars

(***************************************************************************)
(* SpecInfer: infer_type applied to one drawn object.                      *)
(***************************************************************************)
\* longest str, longest list
MaxStrLen == 2
MaxListLen == 2

\* the objects infer_type tells apart: a str with its characters, a list
\* with its items, and anything else with the length of its shape (0: it has
\* no attribute `shape`)
Str(chars) == [k |-> "str", chars |-> chars, items |-> <<>>, ndim |-> 0]
PyList(items) == [k |-> "list", chars |-> <<>>, items |-> items, ndim |-> 0]
Other(k, ndim) == [k |-> k, chars |-> <<>>, items |-> <<>>, ndim |-> ndim]

Alphabet == {"h", " ", "."}
Strs == {Str(c) : c \in SeqsUpTo(Alphabet, MaxStrLen)}
Arrays == {Other("ndarray", 1), Other("ndarray", 2), Other("spmatrix", 2),
           Other("ndarray", 3), Other("tensor", 2), Other("int", 0)}

\* what a list can hold: strs, a number, an array, a list of one word
Items == Strs \cup {Other("int", 0), Other("ndarray", 1), PyList(<<Str(<<"h">>)>>)}
Objects == Strs \cup Arrays \cup {PyList(i) : i \in SeqsUpTo(Items, MaxListLen)}

Returned(t) == [done |-> TRUE, raised |-> FALSE, type |-> t]
\* raise TypeError("Cannot infer type for %r" % obj)
RaisedTypeError == [done |-> TRUE, raised |-> TRUE, type |-> NoType]

\* ch in chars
contains(chars, ch) == \E i \in 1..Len(chars) : chars[i] = ch

\* the branch for str
infer_str(o) ==
    IF ~contains(o.chars, " ") THEN Returned(DataType("Word", {}))
    ELSE IF ~contains(o.chars, ".") THEN Returned(DataType("Sentence", {}))
    ELSE Returned(DataType("Document", {}))

\* the branch for objects with a shape, and the final raise
infer_shape(o) ==
    IF o.ndim = 1 /\ o.k = "ndarray" THEN Returned(DataType("CategoricalVector", {}))
    ELSE IF o.ndim = 2 /\ o.k = "spmatrix" THEN Returned(DataType("MatrixContinuousSparse", {}))
    ELSE IF o.ndim = 2 /\ o.k = "ndarray" THEN Returned(DataType("MatrixContinuousDense", {}))
    ELSE RaisedTypeError

\* for test_type in [Document(), Sentence(), Word()]
test_types == <<DataType("Document", {}), DataType("Sentence", {}), DataType("Word", {})>>

\* the loop over test_types: the first one found in internal_types is returned
\* in a List; with none found the list falls through to the raise (a list has
\* no shape)
infer_list(internal_types) ==
    IF \E n \in 1..Len(test_types) : test_types[n] \in internal_types
    THEN LET first == CHOOSE n \in 1..Len(test_types) :
                        /\ test_types[n] \in internal_types
                        /\ \A m \in 1..(n - 1) : test_types[m] \notin internal_types
         IN Returned(List(test_types[first]))
    ELSE RaisedTypeError

RECURSIVE infer_type(_)
infer_type(o) ==
    IF o.k = "str" THEN infer_str(o)
    ELSE IF o.k = "list"
    THEN LET each == [i \in 1..Len(o.items) |-> infer_type(o.items[i])]
         IN IF \E i \in 1..Len(o.items) : each[i].raised
            THEN RaisedTypeError
            ELSE infer_list({each[i].type : i \in 1..Len(o.items)})
    ELSE infer_shape(o)

\* infer_type(o) returns
InferTypeReturns ==
    /\ ~inferred.done
    /\ \E o \in Objects :
        /\ ~infer_type(o).raised
        /\ obj' = o
        /\ inferred' = infer_type(o)
    /\ UNCHANGED <<conformsVars, matchVars, fitVars, liftVars>>

\* infer_type(o) raises TypeError
InferTypeRaises ==
    /\ ~inferred.done
    /\ \E o \in Objects :
        /\ infer_type(o).raised
        /\ obj' = o
        /\ inferred' = infer_type(o)
    /\ UNCHANGED <<conformsVars, matchVars, fitVars, liftVars>>

InitInfer ==
    /\ ConformsIdle
    /\ MatchIdle
    /\ FitIdle
    /\ LiftIdle
    /\ InferIdle

NextInfer == InferTypeReturns \/ InferTypeRaises

SpecInfer == InitInfer /\ [][NextInfer]_vars

(***************************************************************************)
(* What the claims about the matcher read from a state of SpecMatch.       *)
(***************************************************************************)
\* the (input, output) annotations of a class's run method
RunInput(cls) == Get(cls.members, "run").signature.parameters[2].annotation
RunOutput(cls) == Get(cls.members, "run").signature.return_annotation

\* entries the loop of generate_cfg has already passed
Scanned == IF cfg_pc = "idle" THEN {} ELSE 1..(cfg_i - 1)

\* the entry was judged compatible: it was appended to `compatible`
JudgedCompatible(c) == \E k \in 1..Len(compatible) : compatible[k] = c

\* a is a strict subtype of b
StrictSubtype(a, b) == conforms(a, b) /\ ~conforms(b, a)

RunComponents == {Component("input", i, o) : i \in Annotations, o \in Annotations}
AnnotatedComponents ==
    {Component("input", i, o) : i \in Annotations \ {empty}, o \in Annotations \ {empty}}

(***************************************************************************)
(* C1  is_compatible is contravariant in the parameter and covariant in    *)
(* the return: for algorithm(I, O) and a class with run(self, input: I')   *)
(* -> O', I conforming to I' and O' to O makes the class compatible; I' a  *)
(* strict subtype of I, or O' a strict supertype of O, makes it            *)
(* incompatible.                                                           *)
(***************************************************************************)
C1_Variance ==
    \A j \in Scanned :
        LET c == namespace[j]
        IN (c \in AnnotatedComponents /\ RunInput(iface) # empty /\ RunOutput(iface) # empty) =>
            /\ (conforms(RunInput(iface), RunInput(c)) /\ conforms(RunOutput(c), RunOutput(iface))
                    => JudgedCompatible(c))
            /\ (StrictSubtype(RunInput(c), RunInput(iface))
                  \/ StrictSubtype(RunOutput(iface), RunOutput(c))
                    => ~JudgedCompatible(c))

\* algorithm(Word, Word): run(input: Text) -> Word is kept, run(input: Word) -> Text is not
C1_Witness ==
    /\ cfg_pc = "done"
    /\ iface = algorithm(DataType("Word", {}), DataType("Word", {}))
    /\ namespace = << Component("input", DataType("Text", {}), DataType("Word", {})),
                      Component("input", DataType("Word", {}), DataType("Text", {})) >>
    /\ compatible = << Component("input", DataType("Text", {}), DataType("Word", {})) >>

(***************************************************************************)
(* C2  an unannotated parameter or return is a wildcard on either side: a  *)
(* class with a run(self, input) method is compatible whenever every       *)
(* position annotated on both sides conforms.                              *)
(***************************************************************************)
C2_WildcardEitherSide ==
    \A j \in Scanned :
        LET c == namespace[j]
        IN c \in RunComponents =>
            (( /\ \/ RunInput(iface) = empty
                  \/ RunInput(c) = empty
                  \/ conforms(RunInput(iface), RunInput(c))
               /\ \/ RunOutput(iface) = empty
                  \/ RunOutput(c) = empty
                  \/ conforms(RunOutput(c), RunOutput(iface)) )
             => JudgedCompatible(c))

(***************************************************************************)
(* C3  generate_cfg examines every namespace entry; it raises when no      *)
(* entry is compatible and otherwise passes on exactly the compatible      *)
(* entries, in namespace order.                                            *)
(***************************************************************************)
C3_ScansWholeNamespace ==
    cfg_pc = "done" =>
        LET Compatible(c) == is_compatible(iface, c)
            expected == SelectSeq(namespace, Compatible)
        IN /\ cfg_i = Len(namespace) + 1
           /\ (cfg_result = "ValueError") = (expected = <<>>)
           /\ (cfg_result = "Union") = (expected # <<>>)
           /\ compatible = expected

\* two different compatible entries: both kept, in order
C3_Witness ==
    /\ cfg_pc = "done"
    /\ cfg_result = "Union"
    /\ Len(namespace) = 2
    /\ Len(compatible) = 2
    /\ compatible[1] # compatible[2]

\* nothing in a non-empty namespace is compatible: ValueError
C3_WitnessError ==
    /\ cfg_pc = "done"
    /\ cfg_result = "ValueError"
    /\ Len(namespace) = 2

(***************************************************************************)
(* What the claims about the orchestrator read from a state of SpecFit.    *)
(***************************************************************************)
\* the last call was a fit that raised
FitFailed == pc = "idle" /\ last_call = "fit_raised"

\* the search of the last fit has stopped: it returned a best candidate, or
\* it raised
SearchStopped ==
    \/ pc = "retrain"
    \/ FitFailed /\ last_error \in {"CandidateEvaluationError", "SearchExhausted"}

Raised == {i \in 1..Len(outcomes) : outcomes[i] = "raised"}
Succeeded == {i \in 1..Len(outcomes) : outcomes[i] = "ok"}

\* a raising candidate did not end the search: every candidate was evaluated,
\* and fit holds a successfully evaluated one if there is any
SearchContained ==
    (SearchStopped /\ Raised # {}) =>
        /\ Len(outcomes) = SearchIterations
        /\ Succeeded # {} => (pc = "retrain" /\ best_pipeline_.id \in Succeeded)

\* what a complete round sends and runs, in order
RoundEvents ==
    << Sent("train"),
       Ran(train_indices, [i \in 1..Len(train_indices) |-> y[train_indices[i]]]),
       Sent("eval"),
       Ran(test_indices, [i \in 1..Len(test_indices) |-> 0]) >>

Range(f) == {f[i] : i \in 1..Len(f)}

(***************************************************************************)
(* C4  fit either returns with a retrained winning pipeline in eval mode,  *)
(* or raises and leaves no winning pipeline set on the AutoClassifier.     *)
(***************************************************************************)
C4_FitAllOrNothing ==
    /\ (pc = "idle" /\ last_call = "fit_ok") =>
            (best_pipeline_ # Unset /\ best_pipeline_.mode = "eval")
    /\ FitFailed => best_pipeline_ = Unset

(***************************************************************************)
(* C5  a candidate that raises during a fitness evaluation does not stop   *)
(* the search: the other candidates are still evaluated and fit obtains a  *)
(* best candidate if any candidate was evaluated successfully.             *)
(***************************************************************************)
C5_SearchContained == SearchContained

(***************************************************************************)
(* C5, amended  ... when the AutoClassifier was built with errors="warn".  *)
(***************************************************************************)
C5_SearchContainedWhenWarn == errors = "warn" => SearchContained

\* errors="warn": the first candidate raised, the second is the best pipeline
C5_Witness ==
    /\ errors = "warn"
    /\ pc = "retrain"
    /\ outcomes = <<"raised", "ok">>
    /\ best_pipeline_.id = 2

(***************************************************************************)
(* C6  every round of the fitness function sends train, runs the pipeline  *)
(* on the training rows with their labels, sends eval and runs it on the   *)
(* held-out rows with zeros for labels, in that order; the training and    *)
(* held-out rows are disjoint and together are all the rows; there are     *)
(* cross_validation_steps rounds.                                          *)
(***************************************************************************)
C6_RoundIsolation ==
    /\ Len(scores) <= cross_validation_steps
    /\ log = <<>> <=> (pc \notin {"run_train", "run_eval", "candidate_raised"}
                        /\ ~(pc = "fitness" /\ scores # <<>>))
    /\ log # <<>> =>
        /\ log = SubSeq(RoundEvents, 1, Len(log))
        /\ Len(log) = CASE pc = "run_train" -> 1
                        [] pc = "run_eval" -> 3
                        [] pc = "candidate_raised" -> IF candidate.mode = "train" THEN 2 ELSE 4
                        [] OTHER -> 4
        /\ Range(train_indices) \cap Range(test_indices) = {}
        /\ Range(train_indices) \cup Range(test_indices) = Rows
        /\ Len(train_indices) + Len(test_indices) = NumRows

\* the second round is complete; it trained on one row and held out the rest
C6_Witness ==
    /\ pc = "fitness"
    /\ Len(scores) = 2
    /\ Len(log) = 4
    /\ Len(train_indices) = 1
    /\ log[2].labels # <<0>>
    /\ log[4].rows = test_indices

(***************************************************************************)
(* C7  predict fails unless a fit call has returned before it, and when    *)
(* predict runs a pipeline, the last mode sent to the pipeline is eval and *)
(* the label slot holds only None.                                         *)
(***************************************************************************)
C7_PredictNeedsFit ==
    /\ last_call = "predict_ok" => fitted
    /\ last_run.by = "predict" =>
        /\ last_run.mode = "eval"
        /\ \A i \in 1..Len(last_run.labels) : last_run.labels[i] = "None"

(***************************************************************************)
(* C8  conforms is transitive: whenever conforms(A, B) and conforms(B, C)  *)
(* both returned true, conforms(A, C) returned true.                       *)
(***************************************************************************)
C8_ConformsTransitive ==
    verdict.done /\ verdict.ab /\ verdict.bc => verdict.ac

\* a chain of three different types, the first a Tuple of two slots
C8_Witness ==
    /\ verdict.done /\ verdict.ab /\ verdict.bc /\ verdict.ac
    /\ type1 # type2 /\ type2 # type3 /\ type1 # type3
    /\ type1.k = "Tuple" /\ Len(type1.inner) = 2

(***************************************************************************)
(* C9  conforms is reflexive: conforms(T, T) returned true for every T.    *)
(***************************************************************************)
C9_ConformsReflexive ==
    verdict.done => verdict.aa

\* T a List of a two-slot Tuple that itself holds a List
C9_Witness ==
    /\ verdict.done /\ verdict.aa
    /\ type1.k = "List" /\ type1.inner[1].k = "Tuple"
    /\ Len(type1.inner[1].inner) = 2
    /\ type1.inner[1].inner[2].k = "List"

(***************************************************************************)
(* C10  List conformance is structural: conforms(List(T1), List(T2))       *)
(* equals conforms(T1, T2), and a List conforms to nothing that is not a   *)
(* List, the base DataType included.                                       *)
(***************************************************************************)
C10_ListStructural ==
    verdict.done =>
        /\ verdict.lab = verdict.ab
        /\ (type1.k = "List" /\ type2.k # "List" => ~verdict.ab)

\* List(List(Word)) against List(List(Text)): different types that conform
C10_Witness ==
    /\ verdict.done /\ verdict.ab /\ verdict.lab
    /\ type1 = List(List(DataType("Word", {})))
    /\ type2 = List(List(DataType("Text", {})))

\* a List against the base DataType()
C10_WitnessBase ==
    /\ verdict.done /\ ~verdict.ab
    /\ type1.k = "List" /\ type2 = DataType("DataType", {})

(***************************************************************************)
(* What the claims about the lifting combinators read from a state of      *)
(* SpecLift.                                                               *)
(***************************************************************************)
\* the shape of a d-deep nested sequence: the same nesting with every leaf
\* replaced by one mark
RECURSIVE Shape(_, _)
Shape(xs, d) ==
    IF d = 0 THEN "leaf" ELSE [i \in 1..Len(xs) |-> Shape(xs[i], d - 1)]

\* the leaves of a d-deep nested sequence, left to right
RECURSIVE LeavesOf(_, _)
RECURSIVE LeavesFrom(_, _, _)
LeavesFrom(xs, d, i) ==
    IF i > Len(xs) THEN <<>> ELSE LeavesOf(xs[i], d - 1) \o LeavesFrom(xs, d, i + 1)
LeavesOf(xs, d) == IF d = 0 THEN <<xs>> ELSE LeavesFrom(xs, d, 1)

ListReturned == lift_pc = "returned" /\ composite.kind = "ListAlgorithm"
TupleReturned == lift_pc = "returned" /\ composite.kind = "CompositeAlgorithm"
TupleBuildAttempted == arg_input_type.k = "Tuple"

\* the positions 0 .. arity-1 of a declared tuple type
SlotPositions(t) == 0..(Len(t.inner) - 1)

(***************************************************************************)
(* C11  The class built by build_composite_list(..., depth=d), run on a    *)
(* d-deep nested sequence, returns a nested sequence of the same shape     *)
(* whose leaf at each position is what inner.run returned for the input's  *)
(* leaf at that position; inner.run is called once per leaf, left to       *)
(* right; at depth 0 the result is inner.run(input) itself.                *)
(***************************************************************************)
C11_ListLiftMapsLeaves ==
    ListReturned =>
        /\ Shape(output, depth) = Shape(input, depth)
        /\ Len(calls) = Len(LeavesOf(input, depth))
        /\ \A p \in 1..Len(calls) :
            /\ calls[p].arg = LeavesOf(input, depth)[p]
            /\ calls[p].ret = LeavesOf(output, depth)[p]
        /\ (depth = 0 => (calls[1].arg = input /\ output = calls[1].ret))

\* a ragged 2-deep input: <<<<x, y>>, <<z>>>> with x and y different
C11_Witness ==
    /\ ListReturned
    /\ depth = 2
    /\ Len(input) = 2 /\ Len(input[1]) = 2 /\ Len(input[2]) = 1
    /\ input[1][1] # input[1][2]
    /\ Len(calls) = 3
    /\ output[2][1] = calls[3].ret

\* depth 0: one call, on the input itself
C11_WitnessDepth0 ==
    /\ ListReturned
    /\ depth = 0
    /\ Len(calls) = 1
    /\ output = inner_run(input, 1)

(***************************************************************************)
(* C12  The class built by build_composite_tuple(index, ...), run on a     *)
(* tuple, returns a tuple of the same arity whose slot at index is what    *)
(* inner.run returned for the input's slot at index and whose other slots  *)
(* equal the input's; the input tuple is left as it was.                   *)
(***************************************************************************)
C12_TupleLiftFrame ==
    [][(lift_pc = "called" /\ composite.kind = "CompositeAlgorithm" /\ lift_pc' = "returned") =>
        LET at == getitem_pos(Len(input), index)
        IN /\ input' = input
           /\ Len(output') = Len(input)
           /\ Len(calls') = Len(calls) + 1
           /\ calls'[Len(calls')].arg = input[at]
           /\ output'[at] = calls'[Len(calls')].ret
           /\ \A j \in (1..Len(input)) \ {at} : output'[j] = input[j]]_vars

\* a two-slot tuple whose second slot (index 1) is the one transformed
C12_Witness ==
    /\ TupleReturned
    /\ index = 1
    /\ Len(input) = 2 /\ Len(output) = 2
    /\ output[1] = input[1]
    /\ output[2] = inner_run(input[2], 1)
    /\ output[2] # input[2]

(***************************************************************************)
(* C13  build_composite_tuple fails, and builds no class, for every index  *)
(* that is not one of the positions 0 .. arity-1 of the declared input     *)
(* tuple type or of the declared output tuple type: negative indexes and   *)
(* tuple types of different arities included.                              *)
(***************************************************************************)
C13_BuildRejectsBadIndex ==
    (/\ TupleBuildAttempted
     /\ (index \notin SlotPositions(arg_input_type) \/ index \notin SlotPositions(arg_output_type)))
        => (lift_pc = "build raised" /\ composite = NoComposite)

\* what the code does do: it fails exactly when Python's indexing fails on
\* one of the two tuples
C13_BuildRaisesOnIndexError ==
    TupleBuildAttempted =>
        (lift_pc = "build raised" <=>
            ~(getitem_ok(Len(arg_input_type.inner), index)
              /\ getitem_ok(Len(arg_output_type.inner), index)))

(***************************************************************************)
(* What the claim about infer_type reads from a state of SpecInfer.        *)
(***************************************************************************)
TextTypes == {DataType("Document", {}), DataType("Sentence", {}), DataType("Word", {})}

\* a non-empty list every element of which has an inferred type
ListOfInferred ==
    /\ inferred.done
    /\ obj.k = "list"
    /\ Len(obj.items) > 0
    /\ \A i \in 1..Len(obj.items) : ~infer_type(obj.items[i]).raised

\* the Document, Sentence and Word types among the inferred element types
TextTypesPresent ==
    {t \in TextTypes : \E i \in 1..Len(obj.items) : infer_type(obj.items[i]).type = t}

(***************************************************************************)
(* C14  For a non-empty list infer_type returns List(T) exactly when one   *)
(* and only one of Document, Sentence and Word appears among the inferred  *)
(* element types, T being that one; with two or more of them (a mixed      *)
(* list) or none it raises the type-inference error.                       *)
(***************************************************************************)
C14_ListNeedsExactlyOne ==
    ListOfInferred =>
        IF Cardinality(TextTypesPresent) = 1
        THEN \E t \in TextTypesPresent : inferred = Returned(List(t))
        ELSE inferred.raised

\* what the code does do with a mixed list: Document before Sentence before Word
C14_MixedListPicksByPriority ==
    (ListOfInferred /\ Cardinality(TextTypesPresent) >= 2) =>
        /\ ~inferred.raised
        /\ \E n \in 1..3 :
            /\ inferred.type = List(test_types[n])
            /\ test_types[n] \in TextTypesPresent
            /\ \A m \in 1..(n - 1) : test_types[m] \notin TextTypesPresent

====
